---- MODULE Spec2Model ----
(***************************************************************************)
(* A model of get_user/auto_login.py: main() reads user.json, and for each *)
(* record with credentials opens a browser context, builds the output item *)
(* and calls login_and_extract, closes the context, sleeps between         *)
(* accounts and finally writes anyrouter_accounts.json.                    *)
(*                                                                         *)
(* Python values are tagged records [t, n, s] (None, int, str, or a key   *)
(* that is absent from a dict), so that truthiness, dict.get, `or` and     *)
(* str() are computed as Python computes them.  Strings are TLA+ strings;  *)
(* str.strip() and the decimal rendering of integers are computed on them. *)
(* The two CJK characters of the default account label (U+8D26 U+53F7) are *)
(* written "zhanghao", the module being ASCII.                             *)
(*                                                                         *)
(* Environment assumptions: the browser lifecycle calls (launch,           *)
(* new_context, new_page, close) succeed; the page operations inside       *)
(* login_and_extract may fail as the `site` record says.  Every record of  *)
(* user.json is an object whose four fields, when present, are strings; an *)
(* absent field and an empty one are the same to user.get(k, "").          *)
(***************************************************************************)
EXTENDS Integers, Sequences, FiniteSets, TLC

VARIABLES
    user_json,     \* the configuration file: [status, content]
    outFile,       \* the output file: [by, content]
    pc,            \* main's position
    user_list,     \* main's user_list (<<>> before it is loaded)
    idx,           \* the loop's 0-based index
    info,          \* main's local `info`: <<>> while unbound, else <<dict>>
    results,       \* main's results list
    exc,           \* the exception being propagated, "none" if none
    playwright,    \* the sync_playwright() context manager
    browser,       \* the browser handle
    openContexts,  \* the indices whose browser context is open
    opened,        \* history: indices a context was opened for, in order
    calls,         \* history: the login_and_extract calls made
    delays,        \* history: indices after which the 2 s sleep was taken
    log            \* what was printed (errors, skip notices, waits)

vars == <<user_json, outFile, pc, user_list, idx, info, results, exc,
          playwright, browser, openContexts, opened, calls, delays, log>>

---------------------------------------------------------------------------
(* Bounds *)
MaxUsers == 2
MaxCookies == 2
MaxStorage == 2

---------------------------------------------------------------------------
(* Python values *)
None_ == [t |-> "none", n |-> 0, s |-> ""]
Absent == [t |-> "absent", n |-> 0, s |-> ""]
PyInt(k) == [t |-> "int", n |-> k, s |-> ""]
PyStr(x) == [t |-> "str", n |-> 0, s |-> x]

\* bool(v) for None, int and str
Truthy(v) == \/ v.t = "int" /\ v.n # 0
             \/ v.t = "str" /\ v.s # ""

\* d.get(key): the value, or None when the key is absent
Get(v) == IF v.t = "absent" THEN None_ ELSE v

\* a or b
PyOr(a, b) == IF Truthy(a) THEN a ELSE b

Digit(d) ==
    CASE d = 0 -> "0" [] d = 1 -> "1" [] d = 2 -> "2" [] d = 3 -> "3"
      [] d = 4 -> "4" [] d = 5 -> "5" [] d = 6 -> "6" [] d = 7 -> "7"
      [] d = 8 -> "8" [] d = 9 -> "9"

RECURSIVE IntToStr(_)
IntToStr(k) == IF k < 10 THEN Digit(k)
               ELSE IntToStr(k \div 10) \o Digit(k % 10)

\* str(v)
PyStrOf(v) == CASE v.t = "int" -> IntToStr(v.n)
                [] v.t = "str" -> v.s
                [] OTHER -> "None"

RECURSIVE LStrip(_)
LStrip(x) == IF Len(x) > 0 /\ SubSeq(x, 1, 1) = " "
             THEN LStrip(SubSeq(x, 2, Len(x))) ELSE x

RECURSIVE RStrip(_)
RStrip(x) == IF Len(x) > 0 /\ SubSeq(x, Len(x), Len(x)) = " "
             THEN RStrip(SubSeq(x, 1, Len(x) - 1)) ELSE x

\* str.strip()
Strip(x) == RStrip(LStrip(x))

\* info.get(key) or ""
OrEmpty(v) == IF Truthy(v) THEN v.s ELSE ""

---------------------------------------------------------------------------
(* Inputs: the records of user.json *)
Users == [name : {"", " n1 "}, provider : {"", "p.io"},
          username : {"", " ", "u"}, password : {"", "pw"}]

SeqsUpTo(S, k) == UNION {[1..m -> S] : m \in 0..k}

UserLists == SeqsUpTo(Users, MaxUsers)

UserJsonFiles == {[status |-> "missing", content |-> <<>>],
                  [status |-> "malformed", content |-> <<>>]}
                 \cup {[status |-> "ok", content |-> l] : l \in UserLists}

StaleItem == [name |-> "old", provider |-> "p.io", api_user |-> "1",
              cookies |-> [session |-> "S0"]]

OutFiles == {[by |-> "nobody", content |-> <<>>],
             [by |-> "earlier_run", content |-> <<StaleItem>>]}

---------------------------------------------------------------------------
(* Inputs: what the site answers during one login_and_extract call *)
Cookies == [name : {"session", "cf"}, value : {"S1", "S2"}]

\* the body of GET /api/user/info and how the navigation to it ended
NoBody == [kind |-> "timeout", data |-> "absent", id |-> Absent,
           user_id |-> Absent]
ApiResponses ==
    {[NoBody EXCEPT !.kind = k] :
        k \in {"timeout", "no_response", "status_500", "not_json", "list"}}
    \cup {[NoBody EXCEPT !.kind = "dict", !.data = d] : d \in {"absent", "null"}}
    \cup {[kind |-> "dict", data |-> "dict", id |-> i, user_id |-> u] :
            i \in {Absent, None_, PyInt(0), PyInt(42), PyStr("u7")},
            u \in {Absent, PyInt(7)}}

\* one localStorage value: not JSON, JSON but no dict, or a dict
StorageItems ==
    {[parse |-> "invalid", id |-> Absent], [parse |-> "scalar", id |-> Absent]}
    \cup {[parse |-> "dict", id |-> i] : i \in {Absent, PyInt(9), PyStr("k")}}

\* localStorage with at most ks items, or page.evaluate failing
Storages(ks) ==
    {[ok |-> FALSE, items |-> <<>>]}
    \cup {[ok |-> TRUE, items |-> l] : l \in SeqsUpTo(StorageItems, ks)}

\* the answers of the site with at most kc cookies and ks localStorage
\* items: the step that fails, if one does (then nothing later is read but
\* for the cookies the session holds), the announcement dialog, the
\* cookies, the user-info response and localStorage
SitesUpTo(kc, ks) ==
    {[fail |-> f, dialog |-> "absent", cookies |-> c, api |-> NoBody,
      storage |-> [ok |-> FALSE, items |-> <<>>]] :
        f \in {"goto", "wait_for_selector", "fill", "click"},
        c \in SeqsUpTo(Cookies, kc)}
    \cup
    {[fail |-> "none", dialog |-> d, cookies |-> c, api |-> a, storage |-> st] :
        d \in {"absent", "closed", "click_timeout"},
        c \in SeqsUpTo(Cookies, kc),
        a \in ApiResponses, st \in Storages(ks)}

---------------------------------------------------------------------------
(* login_and_extract *)
Min(S) == CHOOSE m \in S : \A k \in S : m <= k

\* lines 77-82: the value of the first cookie named "session", else None
SessionCookie(cookies) ==
    LET hits == {i \in 1..Len(cookies) : cookies[i].name = "session"}
    IN  IF hits = {} THEN None_ ELSE PyStr(cookies[Min(hits)].value)

\* lines 87-99: method 1, the user-info API
ApiUserFromInfo(api) ==
    IF api.kind = "dict" /\ api.data = "dict"
    THEN PyOr(Get(api.id), Get(api.user_id))
    ELSE None_

\* lines 102-116: method 2, localStorage, tried when api_user is falsy
ApiUserFromStorage(storage, api_user) ==
    LET hits == {i \in 1..Len(storage.items) :
                    /\ storage.items[i].parse = "dict"
                    /\ storage.items[i].id.t # "absent"}
    IN  IF Truthy(api_user) \/ ~storage.ok \/ hits = {}
        THEN api_user
        ELSE storage.items[Min(hits)].id

\* The returned dict; its keys current_url and all_cookies, which main never
\* reads, are left out.
login_and_extract(site, username, password) ==
    IF site.fail # "none"
    THEN [success |-> FALSE, error |-> PyStr(site.fail),
          session_cookie |-> None_, api_user |-> None_]
    ELSE LET session_cookie == SessionCookie(site.cookies)
             api_user == ApiUserFromStorage(site.storage,
                                            ApiUserFromInfo(site.api))
         IN  [success |-> Truthy(session_cookie) \/ Truthy(api_user),
              error |-> Absent,
              session_cookie |-> session_cookie,
              api_user |-> IF Truthy(api_user)
                           THEN PyStr(PyStrOf(api_user)) ELSE None_]

---------------------------------------------------------------------------
(* main *)
Say(msg, k) == Append(log, [msg |-> msg, n |-> k])

\* lines 162-171: the four fields, stripped, with the defaults applied
Fields(user, i) ==
    LET name == Strip(user.name)
        provider == Strip(user.provider)
    IN  [name |-> IF name = "" THEN "zhanghao" \o IntToStr(i + 1) ELSE name,
         provider |-> IF provider = "" THEN "anyrouter.top" ELSE provider,
         username |-> Strip(user.username),
         password |-> Strip(user.password)]

\* mutant of Skipped: the password is not looked at
SkippedUsernameOnly(f) == f.username = ""

\* line 173: `not username or not password`
Skipped(f) == f.username = "" \/ f.password = ""

\* lines 185-192: the output item, read from the local `info`
OutItem(f, d) ==
    [name |-> f.name, provider |-> f.provider,
     api_user |-> OrEmpty(Get(d.api_user)),
     cookies |-> [session |-> OrEmpty(Get(d.session_cookie))]]

Init ==
    /\ user_json \in UserJsonFiles
    /\ outFile \in OutFiles
    /\ pc = "start"
    /\ user_list = <<>>
    /\ idx = 0
    /\ info = <<>>
    /\ results = <<>>
    /\ exc = "none"
    /\ playwright = "none"
    /\ browser = "none"
    /\ openContexts = {}
    /\ opened = <<>>
    /\ calls = <<>>
    /\ delays = <<>>
    /\ log = <<>>

\* mutant of LoadConfig: the except clauses report the error and go on with
\* an empty list instead of returning
LoadConfigGoesOn ==
    /\ pc = "start"
    /\ IF user_json.status = "missing"
       THEN /\ log' = Say("file_not_found", 0)
            /\ pc' = "launch"
            /\ UNCHANGED user_list
       ELSE IF user_json.status = "malformed"
       THEN /\ log' = Say("json_error", 0)
            /\ pc' = "launch"
            /\ UNCHANGED user_list
       ELSE /\ user_list' = user_json.content
            /\ IF user_json.content = <<>>
               THEN log' = Say("no_users", 0) /\ pc' = "done"
               ELSE UNCHANGED log /\ pc' = "launch"
    /\ UNCHANGED <<user_json, outFile, idx, info, results, exc, playwright,
                   browser, openContexts, opened, calls, delays>>

\* lines 141-153: read user.json; a missing or malformed file, or an empty
\* list, ends main
LoadConfig ==
    /\ pc = "start"
    /\ IF user_json.status = "missing"
       THEN /\ log' = Say("file_not_found", 0)
            /\ pc' = "done"
            /\ UNCHANGED user_list
       ELSE IF user_json.status = "malformed"
       THEN /\ log' = Say("json_error", 0)
            /\ pc' = "done"
            /\ UNCHANGED user_list
       ELSE /\ user_list' = user_json.content
            /\ IF user_json.content = <<>>
               THEN log' = Say("no_users", 0) /\ pc' = "done"
               ELSE UNCHANGED log /\ pc' = "launch"
    /\ UNCHANGED <<user_json, outFile, idx, info, results, exc, playwright,
                   browser, openContexts, opened, calls, delays>>

\* lines 155-158: enter sync_playwright() and launch the browser
LaunchBrowser ==
    /\ pc = "launch"
    /\ playwright' = "started"
    /\ browser' = "open"
    /\ idx' = 0
    /\ pc' = "loop"
    /\ UNCHANGED <<user_json, outFile, user_list, info, results, exc,
                   openContexts, opened, calls, delays, log>>

\* lines 160-177: the next record; one without credentials is skipped
LoopNext ==
    /\ pc = "loop"
    /\ idx < Len(user_list)
    /\ IF Skipped(Fields(user_list[idx + 1], idx))
       THEN /\ log' = Say("skip", idx + 1)
            /\ idx' = idx + 1
            /\ pc' = "loop"
       ELSE /\ pc' = "new_context"
            /\ UNCHANGED <<log, idx>>
    /\ UNCHANGED <<user_json, outFile, user_list, info, results, exc,
                   playwright, browser, openContexts, opened, calls, delays>>

\* lines 180-181: a fresh context and its page
NewContext ==
    /\ pc = "new_context"
    /\ openContexts' = openContexts \cup {idx}
    /\ opened' = Append(opened, idx)
    /\ pc' = "try"
    /\ UNCHANGED <<user_json, outFile, user_list, idx, info, results, exc,
                   playwright, browser, calls, delays, log>>

\* lines 183-197: the try block.  The output item is built from `info`
\* (line 188) before the call that assigns it (line 193): while `info` is
\* unbound the read raises UnboundLocalError; once bound, it holds the
\* dict of the preceding call.
TryBody ==
    /\ pc = "try"
    /\ IF info = <<>>
       THEN /\ exc' = "UnboundLocalError"
            /\ UNCHANGED <<info, results, calls>>
       ELSE \E site \in SitesUpTo(MaxCookies, MaxStorage) :
              LET f == Fields(user_list[idx + 1], idx)
              IN  /\ info' = <<login_and_extract(site, f.username, f.password)>>
                  /\ results' = Append(results, OutItem(f, info[1]))
                  /\ calls' = Append(calls, [idx |-> idx, site |-> site])
                  /\ UNCHANGED exc
    /\ pc' = "finally"
    /\ UNCHANGED <<user_json, outFile, user_list, idx, playwright, browser,
                   openContexts, opened, delays, log>>

\* mutant of Finally: context.close() follows the try block instead of
\* standing in a finally clause, so an exception passes it by
FinallyCloseAfterTry ==
    /\ pc = "finally"
    /\ IF exc # "none"
       THEN /\ pc' = "with_exit"
            /\ UNCHANGED <<idx, delays, log, openContexts>>
       ELSE /\ openContexts' = openContexts \ {idx}
            /\ IF idx < Len(user_list) - 1
               THEN delays' = Append(delays, idx) /\ log' = Say("wait", 2)
               ELSE UNCHANGED <<delays, log>>
            /\ idx' = idx + 1
            /\ pc' = "loop"
    /\ UNCHANGED <<user_json, outFile, user_list, info, results, exc,
                   playwright, browser, opened, calls>>

\* lines 199-206: the finally clause closes the context; an exception then
\* leaves the loop and the with block, otherwise the loop sleeps unless
\* this was the last record, and goes on
Finally ==
    /\ pc = "finally"
    /\ openContexts' = openContexts \ {idx}
    /\ IF exc # "none"
       THEN /\ pc' = "with_exit"
            /\ UNCHANGED <<idx, delays, log>>
       ELSE /\ IF idx < Len(user_list) - 1
               THEN delays' = Append(delays, idx) /\ log' = Say("wait", 2)
               ELSE UNCHANGED <<delays, log>>
            /\ idx' = idx + 1
            /\ pc' = "loop"
    /\ UNCHANGED <<user_json, outFile, user_list, info, results, exc,
                   playwright, browser, opened, calls>>

\* line 209: after the last record
CloseBrowser ==
    /\ pc = "loop"
    /\ idx >= Len(user_list)
    /\ browser' = "closed"
    /\ pc' = "with_exit"
    /\ UNCHANGED <<user_json, outFile, user_list, idx, info, results, exc,
                   playwright, openContexts, opened, calls, delays, log>>

\* line 155: leaving the with block stops playwright; a pending exception
\* goes on out of main
WithExit ==
    /\ pc = "with_exit"
    /\ playwright' = "stopped"
    /\ pc' = IF exc # "none" THEN "done" ELSE "write"
    /\ UNCHANGED <<user_json, outFile, user_list, idx, info, results, exc,
                   browser, openContexts, opened, calls, delays, log>>

\* lines 212-216: write the results
WriteOutput ==
    /\ pc = "write"
    /\ outFile' = [by |-> "this_run", content |-> results]
    /\ log' = Say("done", Len(results))
    /\ pc' = "done"
    /\ UNCHANGED <<user_json, user_list, idx, info, results, exc, playwright,
                   browser, openContexts, opened, calls, delays>>

Next ==
    \/ LoadConfig
    \/ LaunchBrowser
    \/ LoopNext
    \/ NewContext
    \/ TryBody
    \/ Finally
    \/ CloseBrowser
    \/ WithExit
    \/ WriteOutput

Spec == Init /\ [][Next]_vars

---------------------------------------------------------------------------
(* login_and_extract on its own: one call for every answer of the site *)
InitExtract ==
    /\ user_json = [status |-> "ok", content |-> <<>>]
    /\ outFile = [by |-> "nobody", content |-> <<>>]
    /\ pc = "call"
    /\ user_list = <<>>
    /\ idx = 0
    /\ info = <<>>
    /\ results = <<>>
    /\ exc = "none"
    /\ playwright = "started"
    /\ browser = "open"
    /\ openContexts = {0}
    /\ opened = <<0>>
    /\ calls \in {<<[idx |-> 0, site |-> site]>> :
                    site \in SitesUpTo(MaxCookies, MaxStorage)}
    /\ delays = <<>>
    /\ log = <<>>

ExtractCall ==
    /\ pc = "call"
    /\ info' = <<login_and_extract(calls[1].site, "u", "pw")>>
    /\ pc' = "returned"
    /\ UNCHANGED <<user_json, outFile, user_list, idx, results, exc,
                   playwright, browser, openContexts, opened, calls, delays,
                   log>>

NextExtract == ExtractCall

SpecExtract == InitExtract /\ [][NextExtract]_vars

---------------------------------------------------------------------------
(* The claims *)
Range(sq) == {sq[k] : k \in 1..Len(sq)}

\* main has ended, by returning or by raising
Ended == pc = "done"

\* user.json parsed to a non-empty list
Loaded == user_json.status = "ok" /\ user_json.content # <<>>

\* the record has a username and a password (after trimming, as main reads them)
HasCreds(u) == Strip(u.username) # "" /\ Strip(u.password) # ""

\* the 0-based positions of the input records that have credentials
CredIdx == {i \in 0..(Len(user_json.content) - 1) :
                HasCreds(user_json.content[i + 1])}

\* ... in input order
CredSeq == SelectSeq([k \in 1..Len(user_json.content) |-> k - 1],
                     LAMBDA i : i \in CredIdx)

Written == outFile.by = "this_run"

\* C1: when user.json parses to a non-empty list, main ends having written
\* an output sequence with exactly one entry per input record that has both
\* a username and a password.
C1_Claim ==
    (Ended /\ Loaded) =>
        (Written /\ Len(outFile.content) = Cardinality(CredIdx))

\* an error was raised while an account was processed
ErrorRaised ==
    \/ exc # "none"
    \/ \E k \in 1..Len(calls) : calls[k].site.fail # "none"

\* C2: an error raised while one account is processed does not end the run:
\* main ends without an exception, every record with credentials has been
\* processed and has its entry in results, and the output file is written.
C2_Claim ==
    (Ended /\ Loaded /\ ErrorRaised) =>
        /\ exc = "none"
        /\ CredIdx \subseteq Range(opened)
        /\ Len(results) = Len(opened)
        /\ Written

\* C3: when the try block of an account is left, login_and_extract has been
\* called for this account and the item appended to results holds the
\* api_user and session of that call's return value; no unassigned `info`
\* was read.
C3_Claim ==
    (pc = "finally") =>
        /\ exc # "UnboundLocalError"
        /\ calls # <<>> /\ results # <<>>
        /\ calls[Len(calls)].idx = idx
        /\ LET f == Fields(user_list[idx + 1], idx)
               ret == login_and_extract(calls[Len(calls)].site,
                                        f.username, f.password)
           IN  results[Len(results)] = OutItem(f, ret)

\* C4: at most one browser context is open at any time, and none is open
\* outside an account's processing: not when the loop turns to the next
\* record or opens the next context, not while an exception leaves the
\* loop, and not when main has ended.
C4_ContextsClosed ==
    /\ Cardinality(openContexts) <= 1
    /\ (pc \in {"try", "finally"}) => (openContexts = {idx})
    /\ (pc \notin {"try", "finally"}) => (openContexts = {})

\* a context was opened, its try block raised, and main has ended
C4_Witness ==
    /\ Ended /\ exc # "none"
    /\ opened # <<>>
    /\ openContexts = {}

\* C5: with user.json missing or malformed, main reports the error and
\* returns: playwright and the browser are never started, no context is
\* opened, no login is attempted and the output file is left as it was.
C5_ConfigErrorIsFatal ==
    (user_json.status \in {"missing", "malformed"}) =>
        /\ pc \in {"start", "done"}
        /\ playwright = "none" /\ browser = "none"
        /\ opened = <<>> /\ calls = <<>> /\ results = <<>>
        /\ outFile \in OutFiles
        /\ exc = "none"
        /\ Ended =>
             log = <<[msg |-> IF user_json.status = "missing"
                              THEN "file_not_found" ELSE "json_error",
                      n |-> 0]>>

\* main has returned on a malformed user.json, an older output file in place
C5_Witness ==
    /\ Ended
    /\ user_json.status = "malformed"
    /\ outFile = [by |-> "earlier_run", content |-> <<StaleItem>>]
    /\ Len(log) = 1

\* the session value C6 states for a call: the value of the cookie named
\* "session" among the cookies read, "" without one or when the flow failed
ClaimedSession(site) ==
    LET hits == {i \in 1..Len(site.cookies) : site.cookies[i].name = "session"}
    IN  IF site.fail # "none" \/ hits = {} THEN ""
        ELSE site.cookies[Min(hits)].value

\* C6: when main has ended, every account a context was opened for has its
\* login_and_extract call and its output record, whose cookies.session is
\* the value of the "session" cookie that call read, or "" without one.
C6_Claim ==
    (Ended /\ Loaded) =>
        \A k \in 1..Len(opened) :
            /\ k <= Len(calls) /\ k <= Len(results)
            /\ calls[k].idx = opened[k]
            /\ results[k].cookies.session = ClaimedSession(calls[k].site)

\* the api_user C7 states for a call: the id the user-info body carries
\* (0 and "" included; user_id standing in for an id that is not there),
\* else the id of the first localStorage value that is a JSON object with
\* an "id", else ""
ClaimedApiUser(site) ==
    LET a == site.api
        carried == IF a.kind = "dict" /\ a.data = "dict"
                   THEN IF a.id.t \in {"int", "str"} THEN a.id
                        ELSE IF a.user_id.t \in {"int", "str"} THEN a.user_id
                        ELSE Absent
                   ELSE Absent
        hits == {i \in 1..Len(site.storage.items) :
                    /\ site.storage.items[i].parse = "dict"
                    /\ site.storage.items[i].id.t # "absent"}
    IN  IF site.fail # "none" THEN ""
        ELSE IF carried.t # "absent" THEN PyStrOf(carried)
        ELSE IF site.storage.ok /\ hits # {}
        THEN PyStrOf(site.storage.items[Min(hits)].id)
        ELSE ""

\* C7: the api_user of a login_and_extract call, as main writes it
\* (`or ""`), is the id of the user-info body stringified whenever the body
\* carries one, for every id value including 0; else the id found in
\* localStorage; else "".
C7_Claim ==
    (pc = "returned") =>
        OrEmpty(Get(info[1].api_user)) = ClaimedApiUser(calls[1].site)

\* C8: the output mirrors the input order: its k-th record carries the name
\* and provider of the k-th input record with credentials, an empty name
\* replaced by the label and the record's 1-based input position, an empty
\* provider by "anyrouter.top".
C8_Claim ==
    (Ended /\ Loaded) =>
        /\ Written
        /\ Len(outFile.content) = Len(CredSeq)
        /\ \A k \in 1..Len(CredSeq) :
             LET i == CredSeq[k]
                 u == user_json.content[i + 1]
             IN  /\ outFile.content[k].name =
                        (IF Strip(u.name) = ""
                         THEN "zhanghao" \o IntToStr(i + 1) ELSE Strip(u.name))
                 /\ outFile.content[k].provider =
                        (IF Strip(u.provider) = ""
                         THEN "anyrouter.top" ELSE Strip(u.provider))

\* C9: when main has ended, the 2 s sleep has been taken after a record with
\* credentials exactly when a later record has credentials too.
C9_Claim ==
    (Ended /\ Loaded) =>
        \A i \in CredIdx :
            (i \in Range(delays)) <=> (\E j \in CredIdx : j > i)

\* the 1-based positions the skip notices printed so far name
SkipNotices == {log[k].n : k \in {m \in 1..Len(log) : log[m].msg = "skip"}}

====
